---- MODULE Spec2Model ----
(***************************************************************************)
(* A model of the Cloud Functions of tyg_social_proofing that serve the    *)
(* Firestore collection "messages": getSocialProofMessages, getMessages,   *)
(* the seed endpoints and backfillToneField (functions/index.js and the    *)
(* earlier revision of the same file).                                     *)
(*                                                                         *)
(* The collection is a sequence of documents in document-id order, the     *)
(* order in which collection.get() delivers them.  Math.random() is a      *)
(* stream of RndLen values k/RndRes (k in 0..RndRes-1), repeated           *)
(* cyclically and chosen anew by every invocation.                         *)
(***************************************************************************)
EXTENDS Integers, Sequences, FiniteSets, TLC

VARIABLES
    docs,       \* the "messages" collection, in document-id order
    clock,      \* the database's server time
    req,        \* the request of the most recent invocation
    resp,       \* the response of the most recent invocation
    bf,         \* the backfillToneField invocation in flight (or the last one)
    prevRun,    \* "ok" while the last backfill run succeeded and nothing wrote since
    seed,       \* the rows read and the messages loaded by the last seed invocation
    trav        \* a client that pages through the collection with getMessages

vars == <<docs, clock, req, resp, bf, prevRun, seed, trav>>

----------------------------------------------------------------------------
(* Bounds of the model *)

MaxDocs == 3        \* documents in a small collection
MaxRows == 1        \* rows in a bundled seed file
MaxRuns == 2        \* backfill runs in one behaviour
MaxClock == 2       \* distinct server timestamps
RndRes == 4         \* Math.random() yields k/RndRes
RndLen == 1         \* period of the random stream
MaxWrites == 1      \* writes of another client during one backfill run

----------------------------------------------------------------------------
(* JavaScript values *)

UNDEF == "<undefined>"      \* a field that is absent
NULL == "<null>"            \* a field stored as null

Truthy(s) == s \notin {UNDEF, NULL, ""}

NoCreatedAt == 0            \* the document has no createdAt field
NoDocId == 0                \* lastDocId omitted, null or ""

Min(a, b) == IF a <= b THEN a ELSE b

----------------------------------------------------------------------------
(* Math.random() *)

RandomStreams == [1..RndLen -> 0..(RndRes - 1)]

\* Math.floor(Math.random() * m) at the c-th call of an invocation
RandomFloor(rnd, c, m) == (rnd[((c - 1) % RndLen) + 1] * m) \div RndRes

----------------------------------------------------------------------------
(* Tones *)

VALID_TONES == <<"Big Hug", "High Five", "Coffee Break", "Sunshine">>

LEGACY_TONE == "Ray of Sunshine"

Includes(list, x) == \E i \in 1..Len(list) : list[i] = x

\* a valid label, the legacy label, null and a missing field
StoredTones == {"Big Hug", LEGACY_TONE, NULL, UNDEF}

----------------------------------------------------------------------------
(* Responses *)

NoResp == [ep |-> "none", status |-> 0, body |-> <<>>]

MethodNotAllowed(ep) ==
    [ep |-> ep, status |-> 405, body |-> [error |-> "Method not allowed"]]

\* the catch block: `logged` is what console.error records, the body is generic
Failure(ep, msg, logged) ==
    [ep |-> ep, status |-> 500, body |-> [error |-> msg], logged |-> logged]

Methods == {"GET", "POST"}

\* a request to the endpoint is in flight
Pending(ep) == req.ep = ep /\ resp = NoResp

Request(ep, method) ==
    [ep |-> ep, method |-> method, lastDocId |-> NoDocId,
     limit |-> [type |-> "undefined", val |-> 0]]

----------------------------------------------------------------------------
(* The Fisher-Yates shuffle both read endpoints apply to their array *)

Swap(s, a, b) == [s EXCEPT ![a] = s[b], ![b] = s[a]]

\* the loop from index i (0-based, as in the code) down to 1
RECURSIVE ShuffleFrom(_, _, _)
ShuffleFrom(messages, i, rnd) ==
    IF i <= 0 THEN messages
    ELSE LET j == RandomFloor(rnd, Len(messages) - i, i + 1)
         IN  ShuffleFrom(Swap(messages, i + 1, j + 1), i - 1, rnd)

Shuffle(messages, rnd) == ShuffleFrom(messages, Len(messages) - 1, rnd)

----------------------------------------------------------------------------
(* getSocialProofMessages *)

\* doc.data(): the fields of the document, without its id
Data(d) == [tone |-> d.tone, createdAt |-> d.createdAt, location |-> d.location]

NormalizeTone(data) ==
    IF data.tone = LEGACY_TONE THEN [data EXCEPT !.tone = "Sunshine"] ELSE data

SocialProofBody(rnd) ==
    IF docs = <<>> THEN [messages |-> <<>>]
    ELSE [messages |->
            Shuffle([i \in 1..Len(docs) |-> NormalizeTone(Data(docs[i]))], rnd)]

\* the earlier revision pushes doc.data() as stored and does not shuffle
SocialProofBodyV1 ==
    IF docs = <<>> THEN [messages |-> <<>>]
    ELSE [messages |-> [i \in 1..Len(docs) |-> Data(docs[i])]]

getSocialProofMessages ==
    \E method \in Methods, rnd \in RandomStreams :
        /\ req' = Request("getSocialProofMessages", method)
        /\ resp' = IF method # "GET"
                   THEN MethodNotAllowed("getSocialProofMessages")
                   ELSE [ep |-> "getSocialProofMessages", status |-> 200,
                         body |-> SocialProofBody(rnd)]
        /\ UNCHANGED <<docs, clock, bf, prevRun, seed, trav>>

getSocialProofMessagesV1 ==
    \E method \in Methods :
        /\ req' = Request("getSocialProofMessagesV1", method)
        /\ resp' = IF method # "GET"
                   THEN MethodNotAllowed("getSocialProofMessagesV1")
                   ELSE [ep |-> "getSocialProofMessagesV1", status |-> 200,
                         body |-> SocialProofBodyV1]
        /\ UNCHANGED <<docs, clock, bf, prevRun, seed, trav>>

\* messagesRef.get() rejects: either revision answers 500
getSocialProofMessagesFails ==
    \E ep \in {"getSocialProofMessages", "getSocialProofMessagesV1"} :
        /\ req' = Request(ep, "GET")
        /\ resp' = Failure(ep, "Failed to fetch messages", "database")
        /\ UNCHANGED <<docs, clock, bf, prevRun, seed, trav>>

----------------------------------------------------------------------------
(* getMessages *)

DEFAULT_LIMIT == 20
MAX_LIMIT == 50

\* the limit of a request body: omitted, a string, or a number
NoLimit == [type |-> "undefined", val |-> 0]
Number(n) == [type |-> "number", val |-> n]

\* the defaults without the clamp to MAX_LIMIT
EffectiveLimitNoClamp(limit) ==
    LET l1 == IF limit.type # "number" THEN DEFAULT_LIMIT ELSE limit.val
    IN  IF l1 <= 0 THEN DEFAULT_LIMIT ELSE l1

\* "Basic validation and sensible defaults"
EffectiveLimit(limit) ==
    LET l1 == IF limit.type # "number" THEN DEFAULT_LIMIT ELSE limit.val
        l2 == IF l1 <= 0 THEN DEFAULT_LIMIT ELSE l1
    IN  IF l2 > MAX_LIMIT THEN MAX_LIMIT ELSE l2

\* orderBy('createdAt', 'desc'): by createdAt, then by document id, both descending
Before(a, b) ==
    \/ a.createdAt > b.createdAt
    \/ a.createdAt = b.createdAt /\ a.id > b.id

HasCreatedAt(d) == d.createdAt # NoCreatedAt

\* the documents the ordered query ranges over: those that have the field
Ordered(collection) == SortSeq(SelectSeq(collection, HasCreatedAt), Before)

Exists(collection, id) == \E i \in 1..Len(collection) : collection[i].id = id

DocOf(collection, id) ==
    collection[CHOOSE i \in 1..Len(collection) : collection[i].id = id]

\* startAfter on whatever lastDocRef.get() returned, without the `exists` test
CursorUsableMustExist(collection, lastDocId) ==
    lastDocId = NoDocId
        \/ (Exists(collection, lastDocId) /\ HasCreatedAt(DocOf(collection, lastDocId)))

\* startAfter(lastDocSnap) takes the values of the orderBy fields from the snapshot
CursorUsable(collection, lastDocId) ==
    ~(lastDocId # NoDocId /\ Exists(collection, lastDocId))
        \/ HasCreatedAt(DocOf(collection, lastDocId))

\* the rows of the ordered query that follow the cursor, before the limit
AfterCursor(collection, lastDocId) ==
    IF lastDocId # NoDocId /\ Exists(collection, lastDocId)
    THEN LET lastDocSnap == DocOf(collection, lastDocId)
             StrictlyAfter(d) == Before(lastDocSnap, d)
         IN  SelectSeq(Ordered(collection), StrictlyAfter)
    ELSE Ordered(collection)

\* snapshot.docs of query.get()
QueryRows(collection, lastDocId, limit) ==
    LET rows == AfterCursor(collection, lastDocId)
    IN  SubSeq(rows, 1, Min(limit, Len(rows)))

\* createdAt.toDate().toISOString()
ToISOString(ts) == "iso:" \o ToString(ts)

\* one entry of messages: the data, its id and createdAt as text (or null)
Reshape(d) ==
    [id |-> d.id, tone |-> d.tone, location |-> d.location,
     createdAt |-> IF HasCreatedAt(d) THEN ToISOString(d.createdAt) ELSE NULL]

\* hasMore as "documents follow the page"
HasMoreWhenRowsFollow(collection, rows, limit) ==
    rows # <<>> /\ AfterCursor(collection, rows[Len(rows)].id) # <<>>

\* const hasMore = snapshot.size === limit
HasMore(collection, rows, limit) == Len(rows) = limit

\* the id of the last element of the shuffled array
LastOfShuffled(rows, messages) ==
    IF messages = <<>> THEN NoDocId ELSE messages[Len(messages)].id

\* lastVisible = snapshot.docs[snapshot.docs.length - 1] || null, and its id
NextLastDocId(rows, messages) ==
    IF rows = <<>> THEN NoDocId ELSE rows[Len(rows)].id

\* the response to {lastDocId, limit} on the collection
GetMessagesResponse(collection, lastDocId, bodyLimit, rnd) ==
    IF ~CursorUsable(collection, lastDocId)
    THEN Failure("getMessages", "Failed to fetch messages", "cursor")
    ELSE LET limit == EffectiveLimit(bodyLimit)
             rows == QueryRows(collection, lastDocId, limit)
             messages == Shuffle([i \in 1..Len(rows) |-> Reshape(rows[i])], rnd)
         IN  [ep |-> "getMessages", status |-> 200,
              body |-> [messages |-> messages,
                        lastDocId |-> NextLastDocId(rows, messages),
                        hasMore |-> HasMore(collection, rows, limit)]]

\* the handler answers the request in flight
getMessages ==
    /\ Pending("getMessages")
    /\ \E rnd \in RandomStreams :
        resp' = IF req.method # "POST" THEN MethodNotAllowed("getMessages")
                ELSE GetMessagesResponse(docs, req.lastDocId, req.limit, rnd)
    /\ UNCHANGED <<docs, clock, req, bf, prevRun, seed, trav>>

\* lastDocRef.get() or query.get() rejects
getMessagesFails ==
    /\ Pending("getMessages")
    /\ req.method = "POST"
    /\ resp' = Failure("getMessages", "Failed to fetch messages", "database")
    /\ UNCHANGED <<docs, clock, req, bf, prevRun, seed, trav>>

\* the client of the infinite-scroll grid: the next call carries the lastDocId of
\* the last answer, until an answer says hasMore = false
getMessagesNextPage ==
    /\ ~trav.done
    /\ trav.calls <= Len(docs)
    /\ \E rnd \in RandomStreams :
        LET r == GetMessagesResponse(docs, trav.cursor, trav.limit, rnd)
        IN  /\ r.status = 200
            /\ req' = [ep |-> "getMessages", method |-> "POST",
                       lastDocId |-> trav.cursor, limit |-> trav.limit]
            /\ resp' = r
            /\ trav' = [limit |-> trav.limit,
                        cursor |-> r.body.lastDocId,
                        pages |-> Append(trav.pages,
                                    {r.body.messages[i].id :
                                        i \in 1..Len(r.body.messages)}),
                        returned |-> trav.returned + Len(r.body.messages),
                        calls |-> trav.calls + 1,
                        done |-> ~r.body.hasMore]
    /\ UNCHANGED <<docs, clock, bf, prevRun, seed>>

----------------------------------------------------------------------------
(* backfillToneField *)

BATCH_LIMIT == 500

hasTone(data) == Truthy(data.tone) /\ Includes(VALID_TONES, data.tone)

\* picks from a list that still carries the legacy label
randomToneLegacyList(rnd, c) ==
    <<"Big Hug", "High Five", "Coffee Break", LEGACY_TONE>>[
        RandomFloor(rnd, c, Len(VALID_TONES)) + 1]

randomTone(rnd, c) == VALID_TONES[RandomFloor(rnd, c, Len(VALID_TONES)) + 1]

\* currentBatch.update(doc.ref, {tone: randomTone})
UpdateOp(doc, tone) == [id |-> doc.id, tone |-> tone]

ScanInit == [batches |-> <<>>, currentBatch |-> <<>>, opCount |-> 0, backfilled |-> 0]

\* closes the batch one operation late
BatchFullOneLate(opCount) == opCount > BATCH_LIMIT

\* whether the scan closes currentBatch after counting an operation
BatchFull(opCount) == opCount >= BATCH_LIMIT

\* the body of snapshot.docs.forEach
ScanDoc(st, doc, rnd) ==
    IF hasTone(doc) THEN st
    ELSE LET cur == Append(st.currentBatch,
                           UpdateOp(doc, randomTone(rnd, st.backfilled + 1)))
             opCount == st.opCount + 1
         IN  IF BatchFull(opCount)
             THEN [batches |-> Append(st.batches, cur), currentBatch |-> <<>>,
                   opCount |-> 0, backfilled |-> st.backfilled + 1]
             ELSE [batches |-> st.batches, currentBatch |-> cur,
                   opCount |-> opCount, backfilled |-> st.backfilled + 1]

\* forEach over snapshot[lo..hi] in order, by halves
RECURSIVE ScanRange(_, _, _, _, _)
ScanRange(snapshot, lo, hi, st, rnd) ==
    IF lo > hi THEN st
    ELSE IF lo = hi THEN ScanDoc(st, snapshot[lo], rnd)
    ELSE LET mid == (lo + hi) \div 2
             first == ScanRange(snapshot, lo, mid, st, rnd)
         IN  IF first.opCount >= 0
             THEN ScanRange(snapshot, mid + 1, hi, first, rnd)
             ELSE first

\* the scan without the push of the last, partly filled batch
ScanNoFinalPush(snapshot, rnd) ==
    LET st == ScanRange(snapshot, 1, Len(snapshot), ScanInit, rnd)
    IN  [batches |-> st.batches, backfilled |-> st.backfilled]

\* the scan and the "if (opCount > 0) batches.push(currentBatch)" after it
Scan(snapshot, rnd) ==
    LET st == ScanRange(snapshot, 1, Len(snapshot), ScanInit, rnd)
    IN  [batches |-> IF st.opCount > 0 THEN Append(st.batches, st.currentBatch)
                     ELSE st.batches,
         backfilled |-> st.backfilled]

BackfillSuccess(backfilled, total) ==
    [ep |-> "backfillToneField", status |-> 200,
     body |-> [success |-> TRUE, backfilled |-> backfilled, totalDocuments |-> total]]

BfIdle == [pc |-> "idle", run |-> 0, snapshot |-> <<>>, batches |-> <<>>, k |-> 0,
           backfilled |-> 0, afterOk |-> FALSE, intervened |-> FALSE,
           other |-> {}]

\* where the document with this id stands in the collection (0: nowhere)
Position(collection, id) ==
    IF id \in 1..Len(collection) /\ collection[id].id = id THEN id
    ELSE IF Exists(collection, id)
         THEN CHOOSE i \in 1..Len(collection) : collection[i].id = id
         ELSE 0

\* an update that is dropped when the document has a valid tone by now
ApplyUpdateIfStillInvalid(collection, op) ==
    IF hasTone(collection[Position(collection, op.id)]) THEN collection
    ELSE [collection EXCEPT ![Position(collection, op.id)].tone = op.tone]

\* the field-level update of one document: only tone is written
ApplyUpdate(collection, op) ==
    [collection EXCEPT ![Position(collection, op.id)].tone = op.tone]

\* the updates batch[lo..hi] in order, by halves
RECURSIVE ApplyRange(_, _, _, _)
ApplyRange(collection, batch, lo, hi) ==
    IF lo > hi THEN collection
    ELSE IF lo = hi THEN ApplyUpdate(collection, batch[lo])
    ELSE LET mid == (lo + hi) \div 2
             first == ApplyRange(collection, batch, lo, mid)
         IN  IF Len(first) >= 0
             THEN ApplyRange(first, batch, mid + 1, hi)
             ELSE first

\* batch.commit(): every update of the batch, atomically
Commit(collection, batch) == ApplyRange(collection, batch, 1, Len(batch))

\* the request arrives, the collection is read, the batches are built
backfillToneField ==
    /\ bf.pc # "commit"
    /\ bf.run < MaxRuns
    /\ \E method \in Methods :
        /\ req' = Request("backfillToneField", method)
        /\ IF method # "POST"
           THEN /\ resp' = MethodNotAllowed("backfillToneField")
                /\ UNCHANGED <<bf, prevRun>>
           ELSE \E rnd \in RandomStreams :
                LET scan == Scan(docs, rnd)
                    run == [pc |-> "commit", run |-> bf.run + 1, snapshot |-> docs,
                            batches |-> scan.batches, k |-> 1,
                            backfilled |-> scan.backfilled,
                            afterOk |-> (prevRun = "ok"), intervened |-> FALSE,
                            other |-> {}]
                IN  IF scan.batches = <<>>
                    THEN /\ resp' = BackfillSuccess(scan.backfilled, Len(docs))
                         /\ bf' = [run EXCEPT !.pc = "idle"]
                         /\ prevRun' = "ok"
                    ELSE /\ bf' = run
                         /\ UNCHANGED <<resp, prevRun>>
    /\ UNCHANGED <<docs, clock, seed, trav>>

\* db.collection('messages').get() rejects
backfillReadFails ==
    /\ bf.pc # "commit"
    /\ bf.run < MaxRuns
    /\ req' = Request("backfillToneField", "POST")
    /\ resp' = Failure("backfillToneField", "Failed to backfill tone field", "database")
    /\ bf' = [BfIdle EXCEPT !.pc = "failed", !.run = bf.run + 1]
    /\ prevRun' = "none"
    /\ UNCHANGED <<docs, clock, seed, trav>>

\* await batch.commit() of the next batch; after the last one, the response
backfillCommit ==
    /\ bf.pc = "commit"
    /\ docs' = Commit(docs, bf.batches[bf.k])
    /\ IF bf.k = Len(bf.batches)
       THEN /\ resp' = BackfillSuccess(bf.backfilled, Len(bf.snapshot))
            /\ bf' = [bf EXCEPT !.pc = "idle", !.k = bf.k + 1]
            /\ prevRun' = IF bf.intervened THEN "none" ELSE "ok"
       ELSE /\ bf' = [bf EXCEPT !.k = bf.k + 1]
            /\ UNCHANGED <<resp, prevRun>>
    /\ UNCHANGED <<clock, req, seed, trav>>

\* batch.commit() rejects: the catch block answers 500, later batches are dropped
backfillCommitFails ==
    /\ bf.pc = "commit"
    /\ resp' = Failure("backfillToneField", "Failed to backfill tone field", "database")
    /\ bf' = [bf EXCEPT !.pc = "failed"]
    /\ prevRun' = "none"
    /\ UNCHANGED <<docs, clock, req, seed, trav>>

\* Another client of the database sets a valid tone on a document while the
\* handler is between its scan and a commit (at one of its awaits). bf.other
\* keeps such a write with the batch that was next to commit when it was made.
\* The writer picks any document of a small collection, and the first or the
\* last document of a larger one.
WriterTargets(collection) ==
    {i \in 1..Len(collection) :
        Len(collection) <= MaxDocs \/ i = 1 \/ i = Len(collection)}

otherWriterSetsTone ==
    /\ bf.pc = "commit"
    /\ Cardinality(bf.other) < MaxWrites
    /\ \E i \in WriterTargets(docs), t \in 1..Len(VALID_TONES) :
          /\ \A w \in bf.other : w.id # docs[i].id
          /\ docs' = [docs EXCEPT ![i].tone = VALID_TONES[t]]
          /\ bf' = [bf EXCEPT !.intervened = TRUE,
                              !.other = bf.other \cup
                                  {[id |-> docs[i].id, tone |-> VALID_TONES[t],
                                    k |-> bf.k]}]
    /\ UNCHANGED <<clock, req, resp, prevRun, seed, trav>>

----------------------------------------------------------------------------
(* The seed endpoints *)

\* `${x}` in a template literal
Str(x) == IF x = UNDEF THEN "undefined" ELSE IF x = NULL THEN "null" ELSE x

\* x || ''
OrEmpty(x) == IF Truthy(x) THEN x ELSE ""

\* String.prototype.trim on the strings of the row alphabet
Trim(x) == IF x = " " THEN "" ELSE x

Cities == {"Austin", "", UNDEF}
States == {"TX", "", " ", UNDEF}
Countries == {"USA", ""}
RowTones == {"High Five", UNDEF}

\* a parsed row of a bundled CSV file: a column that is absent reads undefined
SeedRows == [Tone : RowTones, City : Cities, State : States, Country : Countries]

loadSeedRow(row) ==
    [tone |-> row.Tone, city |-> row.City, state |-> row.State, country |-> "",
     location |-> Str(row.City) \o ", " \o Str(row.State)]

loadGlobalSeedRow(row) ==
    [tone |-> row.Tone, city |-> row.City, state |-> "", country |-> row.Country,
     location |-> Str(row.City) \o ", " \o Str(row.Country)]

loadBecauseOfYouSeedRow(row) ==
    LET city == OrEmpty(row.City)
        state == Trim(OrEmpty(row.State))
        country == Trim(OrEmpty(row.Country))
        location == IF Truthy(state) THEN city \o ", " \o state
                    ELSE IF Truthy(country) THEN city \o ", " \o country
                    ELSE IF Truthy(city) THEN city ELSE "Unknown"
    IN  [tone |-> row.Tone, city |-> city, state |-> state, country |-> country,
         location |-> location]

SeedEndpoints ==
    {"seedThankYouMessages", "seedGlobalThankYouMessages",
     "seedBecauseOfYouMessages", "seedThankYouMessagesV1"}

\* parsed.data.map(...) of the loader the endpoint calls
LoadSeed(ep, rows) ==
    [i \in 1..Len(rows) |->
        IF ep = "seedGlobalThankYouMessages" THEN loadGlobalSeedRow(rows[i])
        ELSE IF ep = "seedBecauseOfYouMessages" THEN loadBecauseOfYouSeedRow(rows[i])
        ELSE loadSeedRow(rows[i])]

\* batch.set refuses a document that holds an undefined field
Storable(msg) ==
    UNDEF \notin {msg.tone, msg.city, msg.state, msg.country, msg.location}

LastId(collection) ==
    IF collection = <<>> THEN 0 ELSE collection[Len(collection)].id

\* the documents one seed batch inserts; the earlier revision sets no createdAt
SeedDocs(ep, msgs, ts) ==
    [i \in 1..Len(msgs) |->
        [id |-> LastId(docs) + i, tone |-> msgs[i].tone,
         createdAt |-> IF ep = "seedThankYouMessagesV1" THEN NoCreatedAt ELSE ts,
         location |-> msgs[i].location]]

SeedFailure(ep, logged) ==
    Failure(ep, IF ep = "seedGlobalThankYouMessages" THEN "Failed to seed global messages"
                ELSE IF ep = "seedBecauseOfYouMessages"
                     THEN "Failed to seed because-of-you messages"
                     ELSE "Failed to seed messages", logged)

\* the parsed rows of the bundled file, and of the last seed invocation: what
\* it loaded, the batches it handed to commit(), how many of them the database
\* applied, and the size of the collection when it began
SeedFile(rows) ==
    [ep |-> "none", rows |-> rows, seedMessages |-> <<>>, batches |-> <<>>,
     committed |-> 0, base |-> 0]

NoSeed == SeedFile(<<>>)

\* seedThankYouMessages, seedGlobalThankYouMessages, seedBecauseOfYouMessages and
\* the earlier seedThankYouMessages answer the request in flight
seedMessages ==
    \E ep \in SeedEndpoints, ts \in {clock, Min(clock + 1, MaxClock)} :
        /\ Pending(ep)
        /\ IF req.method # "POST"
           THEN /\ resp' = MethodNotAllowed(ep)
                /\ UNCHANGED <<docs, clock, seed, prevRun, bf>>
           ELSE LET loaded == LoadSeed(ep, seed.rows)
                    stored == \A i \in 1..Len(loaded) : Storable(loaded[i])
                IN  /\ seed' = [ep |-> ep, rows |-> seed.rows, seedMessages |-> loaded,
                                batches |-> IF stored THEN <<loaded>> ELSE <<>>,
                                committed |-> IF stored THEN 1 ELSE 0,
                                base |-> Len(docs)]
                    /\ IF stored
                       THEN /\ docs' = docs \o SeedDocs(ep, loaded, ts)
                            /\ clock' = ts
                            /\ resp' = [ep |-> ep, status |-> 200,
                                        body |-> [success |-> TRUE,
                                                  count |-> Len(loaded)]]
                            /\ prevRun' = "none"
                            /\ bf' = IF bf.pc = "commit"
                                     THEN [bf EXCEPT !.intervened = TRUE] ELSE bf
                       ELSE /\ resp' = SeedFailure(ep, "undefined value")
                            /\ UNCHANGED <<docs, clock, prevRun, bf>>
        /\ UNCHANGED <<req, trav>>

\* batch.commit() of a seed endpoint rejects: nothing is inserted. Whether the
\* database rejects a batch for its size depends on the backend, so a batch of
\* any size may be applied by seedMessages or rejected here.
seedCommitFails ==
    \E ep \in SeedEndpoints :
        /\ Pending(ep)
        /\ req.method = "POST"
        /\ LET loaded == LoadSeed(ep, seed.rows)
           IN  /\ {i \in 1..Len(loaded) : ~Storable(loaded[i])} = {}
               /\ seed' = [ep |-> ep, rows |-> seed.rows, seedMessages |-> loaded,
                           batches |-> <<loaded>>, committed |-> 0,
                           base |-> Len(docs)]
        /\ resp' = SeedFailure(ep, "database")
        /\ UNCHANGED <<docs, clock, req, bf, prevRun, trav>>

----------------------------------------------------------------------------
(* Collections *)

Locations == {"Austin, TX"}

\* the collections of n documents with ids 1..n
Collections(n, tones, stamps) ==
    {[i \in 1..n |-> [id |-> i, tone |-> f[i].tone, createdAt |-> f[i].createdAt,
                      location |-> f[i].location]] :
        f \in [1..n -> [tone : tones, createdAt : stamps, location : Locations]]}

SmallCollections(tones, stamps) ==
    UNION {Collections(n, tones, stamps) : n \in 0..MaxDocs}

NoTrav == [limit |-> 0, cursor |-> NoDocId, pages |-> <<>>, returned |-> 0,
           calls |-> 0, done |-> FALSE]

InitRest ==
    /\ clock = 1
    /\ req = Request("none", "GET")
    /\ resp = NoResp
    /\ bf = BfIdle
    /\ prevRun = "none"
    /\ seed = NoSeed
    /\ trav = NoTrav

----------------------------------------------------------------------------
(* Backfill on small collections *)

Init ==
    /\ docs \in SmallCollections(StoredTones, {1})
    /\ InitRest

Next ==
    \/ backfillToneField
    \/ backfillReadFails
    \/ backfillCommit
    \/ backfillCommitFails

Spec == Init /\ [][Next]_vars

Tones(collection) == [i \in 1..Len(collection) |-> collection[i].tone]

\* the last backfill run has answered 200 and resp is its answer
BackfillAnswered ==
    /\ bf.pc = "idle"
    /\ bf.run > 0
    /\ resp.ep = "backfillToneField"
    /\ resp.status = 200

\* C1: on the collection with tones ["Big Hug", null, "Ray of Sunshine"] one POST
\* to backfillToneField reports backfilled = 1 and totalDocuments = 3, and the
\* third document still holds "Ray of Sunshine" afterwards.
C1_LegacyToneKept ==
    (BackfillAnswered /\ Tones(bf.snapshot) = <<"Big Hug", NULL, LEGACY_TONE>>)
        => /\ resp.body.backfilled = 1
           /\ resp.body.totalDocuments = 3
           /\ docs[3].tone = LEGACY_TONE

\* C5: a backfill run that starts after a successful run, with no write in
\* between, finds no invalid document, queues no update, changes no document
\* and reports backfilled = 0.
C5_SecondRunBackfillsNothing ==
    bf.afterOk
        => /\ bf.pc = "idle"
           /\ bf.batches = <<>>
           /\ bf.backfilled = 0
           /\ \A i \in 1..Len(bf.snapshot) : hasTone(bf.snapshot[i])
           /\ (~bf.intervened => docs = bf.snapshot)
           /\ (BackfillAnswered => resp.body.backfilled = 0)

\* a second run has answered after a first run that did assign tones
C5_Witness ==
    /\ bf.afterOk
    /\ BackfillAnswered
    /\ bf.run = 2
    /\ \E i \in 1..Len(docs) : docs[i].tone \in {"High Five", "Coffee Break"}

\* C6: every update backfillToneField queues carries one of the four canonical
\* tones and nothing but the tone, and what a run has committed differs from
\* the collection it read only in the tone of documents that had no valid one.
C6_OnlyCanonicalTonesWritten ==
    /\ \A b \in 1..Len(bf.batches) : \A o \in 1..Len(bf.batches[b]) :
          /\ DOMAIN bf.batches[b][o] = {"id", "tone"}
          /\ bf.batches[b][o].tone \in
                {"Big Hug", "High Five", "Coffee Break", "Sunshine"}
    /\ (bf.run > 0 /\ ~bf.intervened /\ Len(bf.snapshot) = Len(docs))
          => \A i \in 1..Len(docs) :
                /\ Data(docs[i]) = Data(bf.snapshot[i])
                   \/ /\ [Data(docs[i]) EXCEPT !.tone = ""]
                            = [Data(bf.snapshot[i]) EXCEPT !.tone = ""]
                      /\ ~hasTone(bf.snapshot[i])
                      /\ docs[i].tone \in
                            {"Big Hug", "High Five", "Coffee Break", "Sunshine"}
                /\ docs[i].id = bf.snapshot[i].id

\* a commit has replaced the legacy tone and a missing tone in one collection
C6_Witness ==
    /\ BackfillAnswered
    /\ \E i, j \in 1..Len(bf.snapshot) :
          /\ bf.snapshot[i].tone = LEGACY_TONE
          /\ bf.snapshot[j].tone = UNDEF
          /\ docs[i].tone # LEGACY_TONE
          /\ docs[j].tone # UNDEF

----------------------------------------------------------------------------
(* getSocialProofMessages, both revisions, on small collections *)

InitAll ==
    /\ docs \in SmallCollections(StoredTones \cup {"Sunshine"}, {1})
    /\ InitRest

NextAll ==
    \/ getSocialProofMessages
    \/ getSocialProofMessagesV1
    \/ getSocialProofMessagesFails

SpecAll == InitAll /\ [][NextAll]_vars

\* C2: no entry of a successful fetch-all response carries "Ray of Sunshine":
\* the response holds as many entries as there are documents, "Sunshine" for
\* every stored "Ray of Sunshine" (counted per tone), and the call leaves the
\* stored documents as they were.
C2_LegacyToneNormalized ==
    (resp.status = 200)
        => LET m == resp.body.messages
           IN  /\ Len(m) = Len(docs)
               /\ \A i \in 1..Len(m) : m[i].tone # LEGACY_TONE
               /\ \A t \in StoredTones \cup {"Sunshine"} :
                     Cardinality({i \in 1..Len(m) : m[i].tone = t})
                       = Cardinality({i \in 1..Len(docs) :
                                        NormalizeTone(Data(docs[i])).tone = t})

----------------------------------------------------------------------------
(* The seed endpoints: one request in flight, the bundled file of the       *)
(* endpoint holding up to MaxRows rows                                     *)

SeedFiles == UNION {[1..n -> SeedRows] : n \in 0..MaxRows}

InitSeed ==
    /\ docs \in UNION {Collections(n, {"Big Hug"}, {1}) : n \in 0..1}
    /\ clock = 1
    /\ req \in {Request(ep, method) : ep \in SeedEndpoints, method \in Methods}
    /\ resp = NoResp
    /\ bf = BfIdle
    /\ prevRun = "none"
    /\ seed \in {SeedFile(rows) : rows \in SeedFiles}
    /\ trav = NoTrav

NextSeed ==
    \/ seedMessages
    \/ seedCommitFails

SpecSeed == InitSeed /\ [][NextSeed]_vars

\* a value that is present and not blank
NonEmpty(x) == Truthy(x) /\ Trim(x) # ""

\* the fallback order the seed endpoints are said to share
FallbackLocation(row) ==
    IF NonEmpty(row.State) THEN OrEmpty(row.City) \o ", " \o Trim(row.State)
    ELSE IF NonEmpty(row.Country) THEN OrEmpty(row.City) \o ", " \o Trim(row.Country)
    ELSE IF Truthy(row.City) THEN row.City
    ELSE "Unknown"

\* C7: each of seedThankYouMessages, seedGlobalThankYouMessages and
\* seedBecauseOfYouMessages gives every row the location "city, state" if the
\* state is non-empty, else "city, country" if the country is non-empty, else
\* the city if it is non-empty, else "Unknown".
C7_LocationFallback ==
    seed.ep \in {"seedThankYouMessages", "seedGlobalThankYouMessages",
                 "seedBecauseOfYouMessages"}
        => \A i \in 1..Len(seed.rows) :
              seed.seedMessages[i].location = FallbackLocation(seed.rows[i])

----------------------------------------------------------------------------
(* getMessages: one request in flight on a small collection or on one that  *)
(* holds more documents than the largest page                               *)

PageDocs == MAX_LIMIT + MaxDocs

\* PageDocs documents, MaxClock distinct timestamps among them
LargeCollection ==
    [i \in 1..PageDocs |->
        [id |-> i, tone |-> "Big Hug", createdAt |-> 1 + (i % MaxClock),
         location |-> "Austin, TX"]]

LimitInputs ==
    {NoLimit, [type |-> "string", val |-> 0]}
        \cup {Number(n) : n \in {0 - 1, 0, 1, 2, MaxDocs, DEFAULT_LIMIT, MAX_LIMIT,
                                 MAX_LIMIT + 1, 2 * MAX_LIMIT}}

\* ids 1..MaxDocs may exist; MaxDocs + 1 exists in the large collection only;
\* PageDocs + 1 names no document
CursorInputs == (0..(MaxDocs + 1)) \cup {PageDocs + 1}

InitPage ==
    /\ docs \in SmallCollections({"Big Hug"}, {NoCreatedAt, 1, 2}) \cup {LargeCollection}
    /\ clock = 1
    /\ req \in [ep : {"getMessages"}, method : Methods,
                lastDocId : CursorInputs, limit : LimitInputs]
    /\ resp = NoResp
    /\ bf = BfIdle
    /\ prevRun = "none"
    /\ seed = NoSeed
    /\ trav = NoTrav

NextPage ==
    \/ getMessages
    \/ getMessagesFails

SpecPage == InitPage /\ [][NextPage]_vars

Answered == req.ep = "getMessages" /\ resp.ep = "getMessages" /\ resp.status = 200

\* C3: a page holds at most min(limit, 50) documents when the request gives a
\* positive number as limit, at most 20 when limit is omitted, not a number or
\* <= 0, and never more than 50; with room in the collection it holds exactly
\* that many.
C3_PageSizeBounded ==
    Answered
        => LET n == Len(resp.body.messages)
               l == req.limit
               cap == IF l.type = "number" /\ l.val > 0 THEN Min(l.val, 50) ELSE 20
           IN  /\ n >= 0
               /\ n <= cap
               /\ n <= 50
               /\ (req.lastDocId = NoDocId
                     => n = Min(cap, Len(SelectSeq(docs, HasCreatedAt))))

\* limit 100 on a collection of more than 50 documents returned 50 of them
C3_Witness ==
    /\ Answered
    /\ req.limit = Number(100)
    /\ Len(docs) > 50
    /\ Len(resp.body.messages) = 50

\* the answer with its messages in id order, so that the shuffle does not count
PageIds(r) == {r.body.messages[i].id : i \in 1..Len(r.body.messages)}

C8_HasMoreIffFullPage ==
    Answered
        => LET l == req.limit
               eff == IF l.type = "number" /\ l.val > 0 THEN Min(l.val, 50) ELSE 20
           IN  resp.body.hasMore <=> (Len(resp.body.messages) = eff)

\* a full page that is the end of the collection still says hasMore
C8_Witness ==
    /\ Answered
    /\ resp.body.hasMore
    /\ resp.body.messages # <<>>
    /\ AfterCursor(docs, resp.body.lastDocId) = <<>>

----------------------------------------------------------------------------
(* A client pages through a collection that does not change *)

InitTrav ==
    /\ docs \in SmallCollections({"Big Hug"}, {NoCreatedAt, 1, 2})
    /\ clock = 1
    /\ req = Request("none", "GET")
    /\ resp = NoResp
    /\ bf = BfIdle
    /\ prevRun = "none"
    /\ seed = NoSeed
    /\ trav \in [limit : {Number(1), Number(2), NoLimit}, cursor : {NoDocId},
                 pages : {<<>>}, returned : {0}, calls : {0}, done : {FALSE}]

NextTrav == getMessagesNextPage

SpecTrav == InitTrav /\ [][NextTrav]_vars

\* in how many of the pages so far the document was returned
TimesReturned(id) == Cardinality({p \in 1..Len(trav.pages) : id \in trav.pages[p]})

WithCreatedAt == Len(SelectSeq(docs, HasCreatedAt))

\* every document with a createdAt was returned in one page, once, and nothing
\* else was returned
CoveredOnce ==
    /\ \A k \in 1..Len(docs) :
          TimesReturned(docs[k].id) = IF HasCreatedAt(docs[k]) THEN 1 ELSE 0
    /\ trav.returned = WithCreatedAt

\* C9: when the traversal has ended, every document that has a createdAt was
\* returned in exactly one page, exactly once, and no more calls were made than
\* there are such documents plus one; while it has not ended, no document was
\* returned twice, fewer calls than that were made and the next call is
\* answered from the cursor at hand, so the traversal ends.
C9_TraversalCoversOnce ==
    /\ trav.done => CoveredOnce /\ trav.calls <= WithCreatedAt + 1
    /\ ~trav.done => /\ trav.calls <= WithCreatedAt
                     /\ trav.calls <= Len(docs)
                     /\ CursorUsable(docs, trav.cursor)
    /\ \A k \in 1..Len(docs) : TimesReturned(docs[k].id) <= 1
    /\ trav.returned = Cardinality(UNION {trav.pages[p] : p \in 1..Len(trav.pages)})

\* a traversal by pages of two has ended after a full page and a last page of
\* one document, all MaxDocs documents returned
C9_Witness ==
    /\ trav.done
    /\ trav.limit = Number(2)
    /\ Len(trav.pages) >= 2
    /\ Cardinality(trav.pages[1]) = 2
    /\ trav.returned = MaxDocs
    /\ CoveredOnce

----------------------------------------------------------------------------
(* Backfill on collections that need more than one batch *)

BatchDocs == 2 * BATCH_LIMIT + MaxDocs

\* n documents with ids 1..n; every m-th has a valid tone, the others have the
\* legacy tone or none
BatchCollection(n, m) ==
    [i \in 1..n |->
        [id |-> i,
         tone |-> IF i % m = 0 THEN "Big Hug"
                  ELSE IF i % 2 = 0 THEN LEGACY_TONE ELSE UNDEF,
         createdAt |-> 1, location |-> "Austin, TX"]]

InitBatch ==
    /\ docs \in {BatchCollection(n, m) :
                    n \in {BATCH_LIMIT, BATCH_LIMIT + 1, BatchDocs},
                    m \in {2, 3, BatchDocs + 1}}
    /\ InitRest

\* one invocation per behaviour: the first request that is a POST starts the run
backfillLargeCollection ==
    /\ bf.run = 0
    /\ backfillToneField

NextBatch ==
    \/ backfillLargeCollection
    \/ backfillCommit
    \/ backfillCommitFails

SpecBatch == InitBatch /\ [][NextBatch]_vars

\* the tone the document of an update holds now, and the one the run read
ToneNow(op) == docs[op.id].tone
ToneRead(op) == bf.snapshot[op.id].tone

\* C10: no batch holds more than 500 updates; the batches are committed in the
\* order they were built, so at any moment the updates of the batches before
\* the next one are in storage and those of the next and later batches are not;
\* when a commit fails this stays so (the earlier batches remain applied, no
\* later batch is committed) and the answer is status 500 with no backfilled
\* count; the answer is a success only after the last batch.
C10_BatchesCommitInOrder ==
    /\ \A b \in 1..Len(bf.batches) :
          /\ Len(bf.batches[b]) <= 500
          /\ Len(bf.batches[b]) > 0
    /\ bf.run > 0 /\ bf.snapshot # <<>> =>
          /\ Len(docs) = Len(bf.snapshot)
          /\ bf.k \in 1..(Len(bf.batches) + 1)
          /\ \A b \in 1..Len(bf.batches) : \A o \in 1..Len(bf.batches[b]) :
                LET op == bf.batches[b][o]
                IN  /\ docs[op.id].id = op.id
                    /\ ToneRead(op) # op.tone
                    /\ ToneNow(op) = IF b < bf.k THEN op.tone ELSE ToneRead(op)
          /\ bf.pc = "failed" =>
                /\ bf.k <= Len(bf.batches)
                /\ resp.ep = "backfillToneField"
                /\ (resp.status # 405
                      => resp.status = 500 /\ DOMAIN resp.body = {"error"})
          /\ bf.pc = "idle" =>
                /\ bf.k = Len(bf.batches) + 1
                /\ (resp.ep = "backfillToneField" /\ resp.status # 405
                      => resp = BackfillSuccess(bf.backfilled, Len(bf.snapshot)))
          /\ bf.pc = "commit" => bf.k <= Len(bf.batches)

\* the commit of the second of three batches has failed
C10_Witness ==
    /\ bf.pc = "failed"
    /\ Len(bf.batches) = 3
    /\ bf.k = 2
    /\ Len(bf.batches[1]) = 500
    /\ resp.status = 500
    /\ ToneNow(bf.batches[1][1]) = bf.batches[1][1].tone
    /\ ToneNow(bf.batches[3][1]) = ToneRead(bf.batches[3][1])

----------------------------------------------------------------------------
(* Backfill while another client writes tones *)

InitRace ==
    /\ docs \in UNION {Collections(n, {"Big Hug", UNDEF}, {1}) : n \in 1..MaxDocs}
                \cup {BatchCollection(BATCH_LIMIT + MaxDocs, BatchDocs + 1)}
    /\ InitRest

NextRace ==
    \/ backfillLargeCollection
    \/ otherWriterSetsTone
    \/ backfillCommit
    \/ backfillCommitFails

SpecRace == InitRace /\ [][NextRace]_vars

\* the number of updates the run queued
Queued ==
    Cardinality({bo \in (1..Len(bf.batches)) \X (1..BATCH_LIMIT) :
                    bo[2] <= Len(bf.batches[bo[1]])})

\* the number of documents the run read without a valid tone
ScannedInvalid == Cardinality({i \in 1..Len(bf.snapshot) : ~hasTone(bf.snapshot[i])})

\* C11: nothing is checked between scan and commit. When another writer has set
\* a valid tone T on a document that the scan found without a valid tone, the
\* document holds T until the batch with its update commits and holds the
\* randomly chosen tone from then on (last write wins); the update stays queued,
\* and the document is counted in backfilled, in the run and in its answer.
\* A tone written after that batch has committed, or on a document the scan
\* found valid, stays.
C11_LostUpdate ==
    /\ bf.run > 0 =>
          /\ bf.backfilled = Queued
          /\ bf.backfilled = ScannedInvalid
    /\ \A w \in bf.other :
          /\ w.tone \in {"Big Hug", "High Five", "Coffee Break", "Sunshine"}
          /\ ~hasTone(bf.snapshot[w.id]) =>
                \E b \in 1..Len(bf.batches) : \E o \in 1..Len(bf.batches[b]) :
                    LET op == bf.batches[b][o]
                    IN  /\ op.id = w.id
                        /\ docs[w.id].tone
                              = IF w.k <= b /\ b < bf.k THEN op.tone ELSE w.tone
          /\ hasTone(bf.snapshot[w.id]) => docs[w.id].tone = w.tone
    /\ BackfillAnswered => resp.body.backfilled = ScannedInvalid

\* a run has answered 200 after its commit replaced the tone another writer
\* had set on a document it counted
C11_Witness ==
    /\ BackfillAnswered
    /\ resp.body.backfilled = ScannedInvalid
    /\ \E w \in bf.other :
          /\ ~hasTone(bf.snapshot[w.id])
          /\ docs[w.id].tone # w.tone
          /\ docs[w.id].tone \in {"Big Hug", "High Five", "Coffee Break", "Sunshine"}

----------------------------------------------------------------------------
(* The seed endpoints on bundled files of up to MaxRows rows and on files   *)
(* around the batch ceiling of the database                                *)

\* a file of n rows that can all be stored
LargeSeedFile(n) ==
    [i \in 1..n |-> [Tone |-> "High Five", City |-> "Austin", State |-> "TX",
                     Country |-> "USA"]]

InitSeedLarge ==
    /\ docs \in UNION {Collections(n, {"Big Hug"}, {1}) : n \in 0..1}
    /\ clock = 1
    /\ req \in {Request(ep, method) : ep \in SeedEndpoints, method \in Methods}
    /\ resp = NoResp
    /\ bf = BfIdle
    /\ prevRun = "none"
    /\ seed \in {SeedFile(rows) :
                    rows \in SeedFiles \cup
                        {LargeSeedFile(n) :
                            n \in {BATCH_LIMIT, BATCH_LIMIT + 1, BATCH_LIMIT + MaxRows}}}
    /\ trav = NoTrav

NextSeedLarge ==
    \/ seedMessages
    \/ seedCommitFails

SpecSeedLarge == InitSeedLarge /\ [][NextSeedLarge]_vars

\* C12: whatever the number N of rows of the bundled file, no batch a seed
\* endpoint hands to commit() holds more than 500 inserts, and an invocation
\* that answers 200 has inserted N documents and reports count = N.
C12_SeedBatchesWithinCeiling ==
    seed.ep \in SeedEndpoints =>
        /\ \A b \in 1..Len(seed.batches) : Len(seed.batches[b]) <= 500
        /\ (resp.status = 200 /\ resp.ep = seed.ep) =>
              /\ resp.body.count = Len(seed.rows)
              /\ Len(docs) = seed.base + Len(seed.rows)

====
